---- MODULE Spec2Model ----
(***************************************************************************)
(* A model of lib/google-books.js: the GoogleBooks client with its         *)
(* single-page fetcher (searchSingle), its memoized transport              *)
(* (searchCache), the paginator (search) and the field adapter (searchBy). *)
(*                                                                         *)
(* Strings are sequences of characters (one-character strings); a few long *)
(* literals that the code never takes apart are kept as one element.       *)
(* JavaScript values are records [t, n, s]: a type tag, a number and a     *)
(* string, so that every value has the same shape.                         *)
(***************************************************************************)
EXTENDS Integers, Sequences, FiniteSets, TLC

\* ------------------------------------------------------------------ bounds
MaxCalls == 2      \* number of search / searchBy calls made on the client
MaxSets == 2       \* largest page-set count a caller asks for
MaxAge == 1        \* the non-zero cacheOptions.maxAge tried, in clock ticks

\* ------------------------------------------------------- JavaScript values
Num(n) == [t |-> "num", n |-> n, s |-> <<>>]
Str(s) == [t |-> "str", n |-> 0, s |-> s]
Undefined == [t |-> "undefined", n |-> 0, s |-> <<>>]
Null == [t |-> "null", n |-> 0, s |-> <<>>]
NaN == [t |-> "nan", n |-> 0, s |-> <<>>]
Function(src) == [t |-> "function", n |-> 0, s |-> <<src>>]

Quote == "\""
Digit == <<"0", "1", "2", "3", "4", "5", "6", "7", "8", "9">>
Whitespace == {" ", "\t", "\r", "\n"}

RECURSIVE Digits(_)
Digits(n) == IF n < 10 THEN <<Digit[n + 1]>> ELSE Digits(n \div 10) \o <<Digit[(n % 10) + 1]>>

\* String(v), as in  v + ''
ToStr(v) ==
    CASE v.t \in {"str", "function"} -> v.s
      [] v.t = "num" -> IF v.n < 0 THEN <<"-">> \o Digits(-v.n) ELSE Digits(v.n)
      [] v.t = "nan" -> <<"NaN">>
      [] v.t = "null" -> <<"null">>
      [] OTHER -> <<"undefined">>

\* the truthiness the || operator tests
Truthy(v) ==
    CASE v.t = "str" -> v.s # <<>>
      [] v.t = "num" -> v.n # 0
      [] v.t = "function" -> TRUE
      [] OTHER -> FALSE

IsDigit(c) == \E i \in 1..10 : Digit[i] = c
DigitVal(c) == (CHOOSE i \in 1..10 : Digit[i] = c) - 1

RECURSIVE ParseDigits(_, _)
ParseDigits(s, acc) ==
    IF s = <<>> \/ ~IsDigit(Head(s)) THEN acc
    ELSE ParseDigits(Tail(s), acc * 10 + DigitVal(Head(s)))

\* parseInt(str, 10)
ParseInt(s) ==
    IF s # <<>> /\ Head(s) = "-" /\ Len(s) > 1 /\ IsDigit(s[2]) THEN Num(-ParseDigits(Tail(s), 0))
    ELSE IF s # <<>> /\ IsDigit(Head(s)) THEN Num(ParseDigits(s, 0))
    ELSE NaN

\* s.indexOf(pat) === 0
StartsWith(s, pat) == Len(s) >= Len(pat) /\ SubSeq(s, 1, Len(pat)) = pat

\* s.replace(pat, ''): a string pattern replaces the first occurrence only
RECURSIVE ReplaceFirst(_, _)
ReplaceFirst(s, pat) ==
    IF Len(s) < Len(pat) THEN s
    ELSE IF StartsWith(s, pat) THEN SubSeq(s, Len(pat) + 1, Len(s))
    ELSE <<Head(s)>> \o ReplaceFirst(Tail(s), pat)

\* ------------------------------------------------------- validator, querystring
\* check(v): the value as the validator sees it, '' for undefined, null and NaN
CheckStr(v) == IF v.t \in {"undefined", "null", "nan"} THEN <<>> ELSE ToStr(v)

\* .notNull()
NotNull(s) == s # <<>>

\* .notEmpty(): fails on a string of white space only
NotEmpty(s) == \E i \in 1..Len(s) : s[i] \notin Whitespace

\* sanitize(v).toInt()
ToInt(v) == IF v.t = "num" THEN v ELSE ParseInt(CheckStr(v))

\* _.isNumber(v)
IsNumber(v) == v.t \in {"num", "nan"}

NativeObject == "function Object() { [native code] }"

\* querystring.escape, on the characters the model uses
EscapeChar(c) ==
    CASE c = ":" -> <<"%", "3", "A">>
      [] c = Quote -> <<"%", "2", "2">>
      [] c = " " -> <<"%", "2", "0">>
      [] c = "/" -> <<"%", "2", "F">>
      [] c = NativeObject -> <<"function%20Object()%20%7B%20%5Bnative%20code%5D%20%7D">>
      [] OTHER -> <<c>>

RECURSIVE Escape(_)
Escape(s) == IF s = <<>> THEN <<>> ELSE EscapeChar(Head(s)) \o Escape(Tail(s))

\* querystring's stringifyPrimitive
StringifyPrimitive(v) == IF v.t \in {"str", "num"} THEN ToStr(v) ELSE <<>>

\* querystring.stringify(obj): key=value pairs in insertion order, joined by &
RECURSIVE Stringify(_)
Stringify(obj) ==
    IF obj = <<>> THEN <<>>
    ELSE <<obj[1].k, "=">> \o Escape(StringifyPrimitive(obj[1].v))
         \o (IF Len(obj) > 1 THEN <<"&">> \o Stringify(Tail(obj)) ELSE <<>>)

\* obj[key] = v: an existing key keeps its place, a new key goes last
SetKey(obj, key, v) ==
    IF \E i \in 1..Len(obj) : obj[i].k = key
    THEN [i \in 1..Len(obj) |-> IF obj[i].k = key THEN [k |-> key, v |-> v] ELSE obj[i]]
    ELSE Append(obj, [k |-> key, v |-> v])

\* an extend that adds src's new keys and keeps the values target already has
RECURSIVE ExtendMissingOnly(_, _)
ExtendMissingOnly(target, src) ==
    IF src = <<>> THEN target
    ELSE ExtendMissingOnly(IF \E i \in 1..Len(target) : target[i].k = src[1].k
                           THEN target
                           ELSE Append(target, src[1]),
                           Tail(src))

\* extend(target, src), shallow: src's keys written into target, in src's order
RECURSIVE Extend(_, _)
Extend(target, src) ==
    IF src = <<>> THEN target
    ELSE Extend(SetKey(target, src[1].k, src[1].v), Tail(src))

\* obj[key], undefined when absent
GetKey(obj, key) ==
    IF \E i \in 1..Len(obj) : obj[i].k = key
    THEN obj[CHOOSE i \in 1..Len(obj) : obj[i].k = key].v
    ELSE Undefined

\* ------------------------------------------------------------ the settings
LoggerDefault == "function () {}"       \* the default: a function, with no log property
LoggerWithLog == "{log: function}"      \* a supplied logger object with a log method

defaults ==
    [queryParams |-> <<[k |-> "maxResults", v |-> Num(40)],
                       [k |-> "startIndex", v |-> Num(0)],
                       [k |-> "langRestrict", v |-> Str(<<"e", "n">>)],
                       [k |-> "printType", v |-> Str(<<"b", "o", "o", "k", "s">>)]>>,
     cacheOptions |-> [maxAge |-> 0, async |-> TRUE, length |-> 1, primitive |-> TRUE],
     setsToFetch |-> 1,
     apiUrl |-> <<"https://www.googleapis.com/books/v1/volumes">>,
     logger |-> LoggerDefault]

\* extend(true, defaults, options || {}) for the options the model passes:
\* a logger, a cacheOptions.maxAge and a setsToFetch, each possibly absent
MergeSettings(options) ==
    [defaults EXCEPT
       !.logger = IF options.logger = "absent" THEN @ ELSE options.logger,
       !.cacheOptions.maxAge = IF options.maxAge.t = "undefined" THEN @ ELSE options.maxAge.n,
       !.setsToFetch = IF options.setsToFetch.t = "undefined" THEN @ ELSE options.setsToFetch.n]

\* settings.logger.log(...): a TypeError when the logger has no log method
LogThrows(logger) == logger # LoggerWithLog

\* the error messages the code throws, and the errors of its collaborators
ErrInvalidQuery == "Invalid search term"
ErrInvalidId == "Invalid ID to search by"
ErrMissingField == "Must provide search field"
ErrUnsupportedField == "Invalid field to search by"
ErrTypeError == "TypeError: settings.logger.log is not a function"
ErrTransport == "transport error"
ErrCallback == "error thrown by the caller's callback"
NoError == "null"

\* ---------------------------------------------------------------- the state
VARIABLES
    settings,      \* the client's settings, merged at construction
    searchCache,   \* the memoized transport: created lazily, entries by full URI
    requests,      \* every transport GET issued, in order, with its state
    tickQueue,     \* callbacks queued by process.nextTick, in order
    calls,         \* the search / searchBy calls made on the client
    peer           \* a second client, made by another call of GoogleBooks

vars == <<settings, searchCache, requests, tickQueue, calls, peer>>

CallIds == 1..MaxCalls

\* the whole state as one value, for the operators that model a handler's run;
\* thrown is the exception on its way up the stack during the run, if any
Machine ==
    [settings |-> settings, searchCache |-> searchCache, requests |-> requests,
     tickQueue |-> tickQueue, calls |-> calls, thrown |-> NoError]

NoOptions == [query |-> Undefined, startIndex |-> Undefined, sets |-> Undefined, field |-> Undefined]

\* throws: the caller's callback throws whenever it is invoked
IdleCall ==
    [status |-> "idle", api |-> "none", input |-> NoOptions, options |-> NoOptions,
     throws |-> FALSE, sets |-> 0, fetches |-> <<>>, results |-> <<>>, cbs |-> <<>>]

\* the page size search steps by
increment == 40

\* ------------------------------------------------------------------ search
\* the caller's next is invoked with the error alone, or with null and the
\* results; what it throws goes up the stack of the run that invoked it
InvokeNext(M, c, err, results) ==
    [M EXCEPT !.calls[c].status = "done",
              !.calls[c].cbs = Append(@, IF err # NoError
                                         THEN [err |-> err, hasResults |-> FALSE, results |-> <<>>]
                                         ELSE [err |-> NoError, hasResults |-> TRUE, results |-> results]),
              !.thrown = IF M.calls[c].throws THEN ErrCallback ELSE @]

\* the callback search hands to async.series (lines 124-135): the caller's next
\* gets the error alone, or null and the list of page bodies
SearchDone(M, c, err, results) == InvokeNext(M, c, err, results)

\* page fetch p of call c has called back
FetchDone(M, c, p, err, body) ==
    [M EXCEPT !.calls[c].fetches[p].done = TRUE,
              !.calls[c].fetches[p].err = err,
              !.calls[c].fetches[p].body = body]

\* async.series, a task calls back with an error: the final callback gets it and
\* no further task is started
TaskError(M, c, p, err) ==
    IF M.calls[c].status = "done" THEN FetchDone(M, c, p, err, 0)
    ELSE SearchDone(FetchDone(M, c, p, err, 0), c, err, <<>>)

\* a cache keyed by the path alone, without the query string
MemoKeyPathOnly(uri, requestOptions) == requestOptions.uri

\* the key memoizee files a call under: length 1, primitive, so the first
\* argument (the full URI) as a string
MemoKey(uri, requestOptions) == uri

\* a memoizer that never finds an entry
HasEntryNever(cache, key) == FALSE

HasEntry(cache, key) == key \in DOMAIN cache.entries

PutEntry(cache, key, e) ==
    [created |-> TRUE,
     entries |-> [u \in DOMAIN cache.entries \cup {key} |-> IF u = key THEN e ELSE cache.entries[u]]]

DeleteEntries(cache, keys) ==
    [cache EXCEPT !.entries = [u \in DOMAIN cache.entries \ keys |-> cache.entries[u]]]

\* the memoized function's body (lines 83-92), run on a miss: one request.get
\* with the request options as they are now; requestOptions.qs is the object
\* extend returned, settings.queryParams itself, and request.get reads it as
\* it is when the request is made
IssueRequest(M, key, requestOptions) ==
    [M EXCEPT !.requests = Append(@, [uri |-> requestOptions.uri, qs |-> M.settings.queryParams,
                                      key |-> key, status |-> "inflight", expired |-> FALSE])]

\* searchCache(fullUri, requestOptions, cb) (lines 83-96), for page fetch p of call c
SearchCacheCall(M, c, p, fullUri, requestOptions) ==
    LET key == MemoKey(fullUri, requestOptions)
        cache == [M.searchCache EXCEPT !.created = TRUE]
        M0 == [M EXCEPT !.searchCache = cache,
                        !.calls[c].fetches[p].key = fullUri]
    IN  IF HasEntry(cache, key) /\ cache.entries[key].state = "pending"
        THEN \* in flight: the callback joins the waiting list
             [M0 EXCEPT !.searchCache.entries[key].waiting = Append(@, [c |-> c, p |-> p]),
                        !.calls[c].fetches[p].found = "pending",
                        !.calls[c].fetches[p].req = cache.entries[key].req]
        ELSE IF HasEntry(cache, key)
        THEN \* resolved: the cached arguments are delivered on the next tick
             [M0 EXCEPT !.tickQueue = Append(@, [c |-> c, p |-> p, key |-> key,
                                                  requestOptions |-> requestOptions]),
                        !.calls[c].fetches[p].found = "resolved",
                        !.calls[c].fetches[p].req = cache.entries[key].req]
        ELSE \* a miss: the function runs and the entry is pending
             LET M1 == IssueRequest(M0, key, requestOptions)
             IN [M1 EXCEPT !.searchCache =
                               PutEntry(cache, key, [state |-> "pending",
                                                     waiting |-> <<[c |-> c, p |-> p]>>,
                                                     req |-> Len(M1.requests), body |-> 0, ttl |-> 0]),
                           !.calls[c].fetches[p].found = "miss",
                           !.calls[c].fetches[p].req = Len(M1.requests)]

\* a check that rejects null and undefined only
CheckQueryNotNullOnly(v) == v.t \notin {"undefined", "null"}

\* check(options.query, 'Invalid search term').notNull().notEmpty()
CheckQuery(v) == NotNull(CheckStr(v)) /\ NotEmpty(CheckStr(v))

\* a normalisation that replaces negative numbers only
NormalStartIndexNegativeOnly(v) == IF v.t = "num" /\ v.n < 0 THEN Num(0) ELSE v

\* the start index searchSingle uses (lines 64-66)
NormalStartIndex(v) == IF ~IsNumber(v) \/ (v.t = "num" /\ v.n < 0) THEN Num(0) ELSE v

IdPrefix == <<"i", "d", ":">>

\* line 77: options.query.replace('id:', '').replace('"', '')
IdOf(query) == ReplaceFirst(ReplaceFirst(query, IdPrefix), <<Quote>>)

\* searchSingle(options, next) (lines 55-100), as page fetch number
\* Len(fetches) + 1 of call c
searchSingle(M, c, options) ==
    LET p == Len(M.calls[c].fetches) + 1
        Ma == [M EXCEPT !.calls[c].fetches =
                  Append(@, [startIndex |-> options.startIndex, query |-> options.query,
                             key |-> <<>>, found |-> "none", req |-> 0,
                             done |-> FALSE, err |-> NoError, body |-> 0])]
    IN  IF ~CheckQuery(options.query) THEN TaskError(Ma, c, p, ErrInvalidQuery)
        ELSE IF LogThrows(M.settings.logger) THEN TaskError(Ma, c, p, ErrTypeError)
        ELSE
        LET startIndex == NormalStartIndex(options.startIndex)
            qs == Extend(M.settings.queryParams,
                         <<[k |-> "q", v |-> options.query], [k |-> "startIndex", v |-> startIndex]>>)
            Mb == [Ma EXCEPT !.settings.queryParams = qs]
            isId == StartsWith(options.query.s, IdPrefix)
            id == IdOf(options.query.s)
            uri == IF isId THEN M.settings.apiUrl \o <<"/">> \o id ELSE M.settings.apiUrl
            fullUri == uri \o <<"?">> \o Stringify(qs)
        IN  IF isId /\ ~(NotNull(id) /\ NotEmpty(id)) THEN TaskError(Mb, c, p, ErrInvalidId)
            ELSE SearchCacheCall(Mb, c, p, fullUri, [uri |-> uri, qs |-> qs, json |-> TRUE])

\* pages offset from the caller's startIndex
JobOptionsFromBase(i, options) ==
    [options EXCEPT !.startIndex =
        Num(increment * i + (IF options.startIndex.t = "num" THEN options.startIndex.n ELSE 0))]

\* createJob(startIndex, options) (lines 114-120): a copy of the options with
\* its startIndex overwritten
JobOptions(i, options) == [options EXCEPT !.startIndex = Num(increment * i)]

\* a series that keeps going after a failed task
TaskCallbackIgnoreError(M, c, p, err, body) ==
    IF M.calls[c].status = "done" THEN FetchDone(M, c, p, err, body)
    ELSE LET M1 == [FetchDone(M, c, p, err, body) EXCEPT !.calls[c].results = Append(@, body)]
             completed == Len(M1.calls[c].results)
         IN  IF completed >= M.calls[c].sets THEN SearchDone(M1, c, NoError, M1.calls[c].results)
             ELSE searchSingle(M1, c, JobOptions(completed, M.calls[c].options))

\* async.series, a task calls back: on an error the final callback gets it; else
\* the result is kept and the next task starts, or the final callback gets the list
TaskCallback(M, c, p, err, body) ==
    IF err # NoError THEN TaskError(M, c, p, err)
    ELSE IF M.calls[c].status = "done" THEN FetchDone(M, c, p, err, body)
    ELSE LET M1 == [FetchDone(M, c, p, err, body) EXCEPT !.calls[c].results = Append(@, body)]
             completed == Len(M1.calls[c].results)
         IN  IF completed >= M.calls[c].sets THEN SearchDone(M1, c, NoError, M1.calls[c].results)
             ELSE searchSingle(M1, c, JobOptions(completed, M.calls[c].options))

\* all the jobs started at once, as async.parallel would
RECURSIVE RunJobs(_, _, _)
RunJobs(M, c, i) ==
    IF i >= M.calls[c].sets \/ M.calls[c].status = "done" THEN M
    ELSE RunJobs(searchSingle(M, c, JobOptions(i, M.calls[c].options)), c, i + 1)

SeriesStartParallel(M, c) ==
    IF M.calls[c].sets = 0 THEN SearchDone(M, c, NoError, <<>>) ELSE RunJobs(M, c, 0)

\* async.series(jobs, ...) starts: no job at all calls back with an empty list,
\* else the first job runs
SeriesStart(M, c) ==
    IF M.calls[c].sets = 0 THEN SearchDone(M, c, NoError, <<>>)
    ELSE searchSingle(M, c, JobOptions(0, M.calls[c].options))

\* a loop that runs once when the count is not a positive number
JobCountAtLeastOne(sets) == IF sets.t = "num" /\ sets.n > 0 THEN sets.n ELSE 1

\* the number of jobs the loop of line 121 creates for the sanitized count
JobCount(sets) == IF sets.t = "num" /\ sets.n > 0 THEN sets.n ELSE 0

\* search(options, next) (lines 109-137)
search(M, c, options) ==
    LET sets == ToInt(IF Truthy(options.sets) THEN options.sets ELSE Num(M.settings.setsToFetch))
    IN  SeriesStart([M EXCEPT !.calls[c].options = options, !.calls[c].sets = JobCount(sets)], c)

\* ---------------------------------------------------------------- searchBy
\* the fields table (lines 149-158)
fields ==
    [title |-> <<"i", "n", "t", "i", "t", "l", "e", ":">>,
     author |-> <<"i", "n", "a", "u", "t", "h", "o", "r", ":">>,
     publisher |-> <<"i", "n", "p", "u", "b", "l", "i", "s", "h", "e", "r", ":">>,
     subject |-> <<"s", "u", "b", "j", "e", "c", "t", ":">>,
     isbn |-> <<"i", "s", "b", "n", ":">>,
     lccn |-> <<"l", "c", "c", "n", ":">>,
     oclc |-> <<"o", "c", "l", "c", ":">>,
     id |-> <<"i", "d", ":">>]

\* fields[options.field]: the table's own keys, then what an object literal
\* inherits from Object.prototype (constructor is the function Object)
FieldLookup(field) ==
    LET name == ToStr(field)
    IN  IF Len(name) = 1 /\ name[1] \in DOMAIN fields THEN Str(fields[name[1]])
        ELSE IF name = <<"constructor">> THEN Function(NativeObject)
        ELSE Undefined

\* the catch of searchBy (lines 169-171): the caller's next gets the error; the
\* exception is caught, and what next throws now goes up to the caller
SearchByError(M, c, err) == InvokeNext([M EXCEPT !.thrown = NoError], c, err, <<>>)

\* the try of searchBy around its call of search (lines 159-171), M1 being the
\* state search returned or threw in: an exception search let through, the
\* caller's own next having thrown it, is caught and handed to next
SearchByTry(M, c, M1) == IF M1.thrown # NoError THEN SearchByError(M1, c, M1.thrown) ELSE M1

\* the query text searchBy hands to search (line 167)
FieldQuery(prefix, query) == ToStr(prefix) \o <<Quote>> \o ToStr(query) \o <<Quote>>

\* searchBy(options, next) (lines 145-172)
searchBy(M, c, options) ==
    IF ~CheckQuery(options.query) THEN SearchByError(M, c, ErrInvalidQuery)
    ELSE IF ~NotNull(CheckStr(options.field)) THEN SearchByError(M, c, ErrMissingField)
    ELSE IF ~Truthy(FieldLookup(options.field)) THEN SearchByError(M, c, ErrUnsupportedField)
    ELSE IF LogThrows(M.settings.logger) THEN SearchByError(M, c, ErrTypeError)
    ELSE SearchByTry(M, c,
             search(M, c, [NoOptions EXCEPT
                              !.query = Str(FieldQuery(FieldLookup(options.field), options.query))]))

\* ----------------------------------------------------- transport and cache
\* memoizee's callback for request k: an error deletes the entry, a body is
\* kept with the time to live; then every waiting callback runs in turn, until
\* one of them throws
RECURSIVE DeliverAll(_, _, _, _)
DeliverAll(M, waiting, err, body) ==
    IF waiting = <<>> \/ M.thrown # NoError THEN M
    ELSE DeliverAll(TaskCallback(M, Head(waiting).c, Head(waiting).p, err, body),
                    Tail(waiting), err, body)

RequestCallback(M, k, err) ==
    LET key == M.requests[k].key
        mine == HasEntry(M.searchCache, key) /\ M.searchCache.entries[key].req = k
        waiting == IF mine THEN M.searchCache.entries[key].waiting ELSE <<>>
        M1 == [M EXCEPT
                 !.requests[k].status = IF err = NoError THEN "ok" ELSE "failed",
                 !.searchCache =
                     IF ~mine THEN @
                     ELSE IF err # NoError THEN DeleteEntries(@, {key})
                     ELSE [@ EXCEPT !.entries[key] =
                              [state |-> "resolved", waiting |-> <<>>, req |-> k, body |-> k,
                               ttl |-> M.settings.cacheOptions.maxAge]]]
    IN  DeliverAll(M1, waiting, err, IF err = NoError THEN k ELSE 0)

\* the next-tick callback of a cache hit: the cached body if the entry is still
\* there, else the memoized function is called again
TickCallback(M, t) ==
    IF HasEntry(M.searchCache, t.key) /\ M.searchCache.entries[t.key].state = "resolved"
    THEN TaskCallback(M, t.c, t.p, NoError, M.searchCache.entries[t.key].body)
    ELSE SearchCacheCall(M, t.c, t.p, t.key, t.requestOptions)

\* ------------------------------------------------------------------ inputs
QueryInputs ==
    {Undefined, Str(<<>>), Str(<<"a">>), Str(<<"i", "d", ":", "a">>),
     Str(<<"i", "d", ":", Quote, "a", Quote>>), Str(<<"i", "d", ":">>)}

StartIndexInputs == {Undefined, Num(7)}

SetsInputs == {Undefined, Str(<<"x">>)} \cup {Num(n) : n \in 0..MaxSets}

ValueInputs == {Str(<<>>), Str(<<"a">>)}

FieldInputs ==
    {Undefined, Str(<<"bogus">>), Str(<<"constructor">>)} \cup {Str(<<f>>) : f \in DOMAIN fields}

ClientOptions ==
    [logger : {"absent", LoggerWithLog},
     maxAge : {Undefined},
     setsToFetch : {Undefined, Num(0), Num(MaxSets)}]

ExpiringClientOptions ==
    [logger : {LoggerWithLog},
     maxAge : {Undefined, Num(MaxAge)},
     setsToFetch : {Undefined}]

\* what a caller may pass to search and to searchBy
SearchOptions ==
    {[NoOptions EXCEPT !.query = query, !.startIndex = startIndex, !.sets = sets] :
        query \in QueryInputs, startIndex \in StartIndexInputs, sets \in SetsInputs}

SearchByOptions ==
    {[NoOptions EXCEPT !.query = query, !.field = field] :
        query \in ValueInputs, field \in FieldInputs}

\* the plain search: one query text, the configured page-set count
PlainOptions == {[NoOptions EXCEPT !.query = Str(<<"a">>)]}

\* the searches made on a client whose entries expire
ExpiringOptions ==
    {[NoOptions EXCEPT !.query = Str(<<"a">>), !.sets = sets] : sets \in {Undefined, Num(MaxSets)}}
    \cup {[NoOptions EXCEPT !.query = Str(<<"i", "d", ":", "a">>)]}

\* ----------------------------------------------------------------- actions
Apply(M) ==
    /\ settings' = M.settings
    /\ searchCache' = M.searchCache
    /\ requests' = M.requests
    /\ tickQueue' = M.tickQueue
    /\ calls' = M.calls
    /\ UNCHANGED peer

CanStart(c) == calls[c].status = "idle" /\ (IF c = 1 THEN TRUE ELSE calls[c - 1].status # "idle")

\* the model gives the full range of inputs to one call and plain searches to
\* the calls around it
OthersPlain(c) ==
    \A d \in CallIds \ {c} : calls[d].status = "idle" \/ calls[d].input \in PlainOptions

Started(c, api, options) ==
    [Machine EXCEPT !.calls[c].status = "running", !.calls[c].api = api, !.calls[c].input = options]

\* a caller calls search(options, next)
Search(c) ==
    /\ CanStart(c)
    /\ \E options \in (IF OthersPlain(c) THEN SearchOptions ELSE PlainOptions) :
         Apply(search(Started(c, "search", options), c, options))

\* a caller calls searchBy(options, next)
SearchBy(c) ==
    /\ CanStart(c)
    /\ OthersPlain(c)
    /\ \E options \in SearchByOptions :
         Apply(searchBy(Started(c, "searchBy", options), c, options))

\* the transport answers request k, with a body or with an error
TransportReply(k) ==
    /\ tickQueue = <<>>
    /\ requests[k].status = "inflight"
    /\ \E err \in {NoError, ErrTransport} : Apply(RequestCallback(Machine, k, err))

\* the first queued next-tick callback runs
NextTick ==
    /\ tickQueue # <<>>
    /\ Apply(TickCallback([Machine EXCEPT !.tickQueue = Tail(@)], Head(tickQueue)))

\* entries that stay whatever their age
TimedOutNever(e) == FALSE

\* memoizee's maxAge timer for a resolved entry fires once the entry has lived
\* for cacheOptions.maxAge
TimedOut(e) == e.state = "resolved" /\ e.ttl <= 1

\* the clock advances by one: entries whose time to live has run out are deleted
Tick ==
    /\ tickQueue = <<>>
    /\ settings.cacheOptions.maxAge > 0
    /\ \E key \in DOMAIN searchCache.entries : searchCache.entries[key].state = "resolved"
    /\ LET e == searchCache.entries
           out == {key \in DOMAIN e : TimedOut(e[key])}
       IN  /\ searchCache' = [searchCache EXCEPT !.entries =
                                 [key \in DOMAIN e \ out |->
                                    IF e[key].state = "resolved" THEN [e[key] EXCEPT !.ttl = @ - 1]
                                    ELSE e[key]]]
           /\ requests' = [k \in DOMAIN requests |->
                             IF requests[k].key \in out /\ requests[k].status = "ok"
                             THEN [requests[k] EXCEPT !.expired = TRUE] ELSE requests[k]]
    /\ UNCHANGED <<settings, tickQueue, calls, peer>>

\* a caller calls search with a query text and the configured or the largest
\* page-set count, on a client whose cache entries expire
SearchExpiring(c) ==
    /\ CanStart(c)
    /\ \E options \in ExpiringOptions :
         Apply(search(Started(c, "search", options), c, options))

\* what one call of GoogleBooks(options) creates: the merged settings and a
\* cache not yet created, and no request, queued callback or call so far
NewClient(merged) ==
    [settings |-> merged, searchCache |-> [created |-> FALSE, entries |-> [u \in {} |-> 0]],
     requests |-> <<>>, tickQueue |-> <<>>, calls |-> [c \in CallIds |-> IdleCall],
     thrown |-> NoError]

Fresh ==
    /\ searchCache = NewClient(settings).searchCache
    /\ requests = <<>>
    /\ tickQueue = <<>>
    /\ calls = [c \in CallIds |-> IdleCall]
    /\ peer = NewClient(MergeSettings([logger |-> LoggerWithLog, maxAge |-> Undefined,
                                       setsToFetch |-> Undefined]))

\* a client constructed with any of the options, its entries never expiring
Init ==
    /\ settings \in {MergeSettings(o) : o \in ClientOptions}
    /\ Fresh

Next ==
    \/ \E c \in CallIds : Search(c)
    \/ \E c \in CallIds : SearchBy(c)
    \/ \E k \in DOMAIN requests : TransportReply(k)
    \/ NextTick

Spec == Init /\ [][Next]_vars

\* a client constructed with a logger and with or without a time to live for
\* its cache entries
InitExpiring ==
    /\ settings \in {MergeSettings(o) : o \in ExpiringClientOptions}
    /\ Fresh

NextExpiring ==
    \/ \E c \in CallIds : SearchExpiring(c)
    \/ \E k \in DOMAIN requests : TransportReply(k)
    \/ NextTick
    \/ Tick

SpecExpiring == InitExpiring /\ [][NextExpiring]_vars

\* ------------------------------------------------- the single-page fetcher
\* the start indices and query texts searchSingle is given directly
SingleStartIndexInputs == {Undefined, Null, Str(<<"x">>), Num(0 - 1), Num(0), Num(increment)}

SingleOptions ==
    {[NoOptions EXCEPT !.query = query, !.startIndex = startIndex] :
        query \in {Str(<<"a">>), Str(<<"i", "d", ":", "a">>)},
        startIndex \in SingleStartIndexInputs}

\* searchSingle(options, next) is called with any start index; next is the
\* callback of a one-job series
FetchSingle(c) ==
    /\ CanStart(c)
    /\ \E options \in SingleOptions :
         Apply(searchSingle([Started(c, "searchSingle", options) EXCEPT
                                !.calls[c].options = options, !.calls[c].sets = 1],
                            c, options))

\* a client constructed with a logger
InitSingle ==
    /\ settings = MergeSettings([logger |-> LoggerWithLog, maxAge |-> Undefined,
                                 setsToFetch |-> Undefined])
    /\ Fresh

NextSingle ==
    \/ \E c \in CallIds : FetchSingle(c)
    \/ \E k \in DOMAIN requests : TransportReply(k)
    \/ NextTick

SpecSingle == InitSingle /\ [][NextSingle]_vars

\* --------------------------------------------------- callbacks that throw
ThrowingClientOptions ==
    [logger : {LoggerWithLog},
     maxAge : {Undefined},
     setsToFetch : {Undefined, Num(0)}]

ThrowingSearchOptions ==
    {[NoOptions EXCEPT !.query = query, !.sets = sets] :
        query \in {Str(<<>>), Str(<<"a">>)}, sets \in {Undefined, Str(<<"x">>)}}

ThrowingSearchByOptions ==
    {[NoOptions EXCEPT !.query = query, !.field = field] :
        query \in ValueInputs, field \in {Str(<<"title">>), Str(<<"bogus">>)}}

\* a caller calls search(options, next) with a next that throws, or does not
SearchThrowing(c) ==
    /\ CanStart(c)
    /\ \E options \in ThrowingSearchOptions : \E throws \in BOOLEAN :
         Apply(search([Started(c, "search", options) EXCEPT !.calls[c].throws = throws],
                      c, options))

\* a caller calls searchBy(options, next) with a next that throws, or does not
SearchByThrowing(c) ==
    /\ CanStart(c)
    /\ \E options \in ThrowingSearchByOptions : \E throws \in BOOLEAN :
         Apply(searchBy([Started(c, "searchBy", options) EXCEPT !.calls[c].throws = throws],
                        c, options))

\* a client constructed with a logger, for one page set or for none
InitThrowing ==
    /\ settings \in {MergeSettings(o) : o \in ThrowingClientOptions}
    /\ Fresh

NextThrowing ==
    \/ \E c \in CallIds : SearchThrowing(c)
    \/ \E c \in CallIds : SearchByThrowing(c)
    \/ \E k \in DOMAIN requests : TransportReply(k)
    \/ NextTick

SpecThrowing == InitThrowing /\ [][NextThrowing]_vars

\* ------------------------------------------------------------ two clients
Clients == {1, 2}

\* a cache declared once for the module: every client uses the first one's
CacheOwnerModule(i) == 1

\* the client whose cache client i uses: var searchCache is declared inside
\* GoogleBooks (line 46), one for each call of it
CacheOwner(i) == i

\* the client whose settings client i uses: defaults is an object literal
\* inside GoogleBooks (lines 22-38) and settings is that object, merged
SettingsOwner(i) == i

\* the state client i runs on: client 1 is the client of the variables above
ClientMachine(i) ==
    IF i = 1 THEN Machine
    ELSE [peer EXCEPT !.searchCache = IF CacheOwner(i) = 1 THEN searchCache ELSE @,
                      !.settings = IF SettingsOwner(i) = 1 THEN settings ELSE @]

ApplyClient(i, M) ==
    IF i = 1 THEN Apply(M)
    ELSE /\ peer' = [M EXCEPT !.thrown = NoError,
                              !.searchCache = IF CacheOwner(i) = 1 THEN peer.searchCache ELSE @,
                              !.settings = IF SettingsOwner(i) = 1 THEN peer.settings ELSE @]
         /\ searchCache' = IF CacheOwner(i) = 1 THEN M.searchCache ELSE searchCache
         /\ settings' = IF SettingsOwner(i) = 1 THEN M.settings ELSE settings
         /\ UNCHANGED <<requests, tickQueue, calls>>

\* the calls made so far on both clients
CallsMade ==
    Cardinality({c \in CallIds : calls[c].status # "idle"})
    + Cardinality({c \in CallIds : peer.calls[c].status # "idle"})

TwoClientOptions ==
    {[NoOptions EXCEPT !.query = query, !.sets = sets] :
        query \in {Str(<<"a">>), Str(<<"i", "d", ":", "a">>)}, sets \in {Undefined, Num(MaxSets)}}

\* a caller calls search(options, next) on client i
ClientSearch(i, c) ==
    /\ CallsMade < MaxCalls
    /\ ClientMachine(i).calls[c].status = "idle"
    /\ IF c = 1 THEN TRUE ELSE ClientMachine(i).calls[c - 1].status # "idle"
    /\ \E options \in TwoClientOptions :
         ApplyClient(i, search([ClientMachine(i) EXCEPT !.calls[c].status = "running",
                                                       !.calls[c].api = "search",
                                                       !.calls[c].input = options],
                               c, options))

\* the transport answers request k of client i
ClientTransportReply(i, k) ==
    /\ ClientMachine(i).tickQueue = <<>>
    /\ ClientMachine(i).requests[k].status = "inflight"
    /\ \E err \in {NoError, ErrTransport} :
         ApplyClient(i, RequestCallback(ClientMachine(i), k, err))

\* the first next-tick callback client i queued runs
ClientNextTick(i) ==
    /\ ClientMachine(i).tickQueue # <<>>
    /\ ApplyClient(i, TickCallback([ClientMachine(i) EXCEPT !.tickQueue = Tail(@)],
                                   Head(ClientMachine(i).tickQueue)))

\* two clients, each constructed with a logger
InitTwo ==
    /\ settings = MergeSettings([logger |-> LoggerWithLog, maxAge |-> Undefined,
                                 setsToFetch |-> Undefined])
    /\ Fresh

NextTwo ==
    \/ \E i \in Clients : \E c \in CallIds : ClientSearch(i, c)
    \/ \E i \in Clients : \E k \in DOMAIN ClientMachine(i).requests : ClientTransportReply(i, k)
    \/ \E i \in Clients : ClientNextTick(i)

SpecTwo == InitTwo /\ [][NextTwo]_vars

\* ------------------------------------------------------------------ claims
Made == {c \in CallIds : calls[c].status # "idle"}
Pages(c) == 1..Len(calls[c].fetches)
Fetch(c, p) == calls[c].fetches[p]

\* the URL a transport request goes to: its uri and its serialized query string
RequestUrl(r) == r.uri \o <<"?">> \o Stringify(r.qs)

\* a query text that is null, missing or empty
EmptyText(v) == v \in {Undefined, Null, Str(<<>>)}

\* the error alone, as a callback receives it
Failure(err) == [err |-> err, hasResults |-> FALSE, results |-> <<>>]

\* C1 (as stated): every request URL causes exactly one transport GET per
\* time-to-live window: of two GETs to the same URL, the earlier one's entry
\* has expired before the later one is issued.
C1_OneGetPerUrlPerWindow ==
    \A i, j \in DOMAIN requests :
        (i < j /\ RequestUrl(requests[i]) = RequestUrl(requests[j])) => requests[i].expired

\* C1 (amended): a GET that is in flight or has succeeded is the only GET to
\* its URL until its entry expires, and a call that finds the entry gets the
\* body of that GET; a GET that failed leaves no entry, so a later call for the
\* same URL issues a new GET.
C1_OneGetPerValidEntry ==
    /\ \A i, j \in DOMAIN requests :
          (i < j /\ RequestUrl(requests[i]) = RequestUrl(requests[j])
                 /\ requests[i].status # "failed") => requests[i].expired
    /\ \A c \in Made : \A p \in Pages(c) :
          (Fetch(c, p).found = "resolved" /\ Fetch(c, p).done) =>
              /\ Fetch(c, p).err = NoError
              /\ Fetch(c, p).body = Fetch(c, p).req
              /\ requests[Fetch(c, p).req].status = "ok"
              /\ RequestUrl(requests[Fetch(c, p).req]) = Fetch(c, p).key

\* C1 witness: a later call found the entry of an earlier GET and was served
\* that GET's body from the cache
C1_Witness ==
    \E c \in Made : \E p \in Pages(c) :
        /\ Fetch(c, p).found = "resolved" /\ Fetch(c, p).done /\ Fetch(c, p).body >= 1
        /\ \E d \in Made \ {c} : \E q \in Pages(d) :
              Fetch(d, q).found = "miss" /\ Fetch(d, q).req = Fetch(c, p).body

\* C2: a search asked for n >= 1 page sets fetches page i at start index i*40,
\* whatever startIndex the caller passed, never more than n pages, and on
\* success returns the n page bodies in page order, each the response to the
\* request at that page's start index.
C2_PagesAtOffsets ==
    \A c \in Made :
        (calls[c].api = "search" /\ calls[c].input.sets.t = "num" /\ calls[c].input.sets.n >= 1) =>
            LET n == calls[c].input.sets.n
            IN  /\ Len(calls[c].fetches) <= n
                /\ \A p \in Pages(c) : Fetch(c, p).startIndex = Num(40 * (p - 1))
                /\ \A i \in 1..Len(calls[c].cbs) :
                      calls[c].cbs[i].err = NoError =>
                          /\ Len(calls[c].fetches) = n
                          /\ Len(calls[c].cbs[i].results) = n
                          /\ \A p \in 1..n :
                                /\ calls[c].cbs[i].results[p] = Fetch(c, p).body
                                /\ Fetch(c, p).body \in DOMAIN requests
                                /\ GetKey(requests[Fetch(c, p).body].qs, "startIndex") = Num(40 * (p - 1))

\* C2 witness: a search with startIndex 7 and two or more page sets succeeded
C2_Witness ==
    \E c \in Made :
        /\ calls[c].api = "search" /\ calls[c].input.startIndex = Num(7)
        /\ calls[c].input.sets.t = "num" /\ calls[c].input.sets.n >= 2
        /\ calls[c].status = "done" /\ calls[c].cbs[1].err = NoError

\* C3: a page fetch that failed is the last fetch of its search: no later page
\* is fetched, the search is over, and its callback got that error once, with
\* no list of the pages fetched before.
C3_AllOrNothing ==
    \A c \in Made : \A p \in Pages(c) :
        (Fetch(c, p).done /\ Fetch(c, p).err # NoError) =>
            /\ p = Len(calls[c].fetches)
            /\ calls[c].status = "done"
            /\ calls[c].cbs = <<Failure(Fetch(c, p).err)>>

\* C3 witness: one search lost its first page of two or more to the transport
\* and fetched no second page, and one search lost its second page after its
\* first page had been fetched
C3_Witness ==
    /\ \E c \in Made :
          /\ calls[c].sets >= 2 /\ Len(calls[c].fetches) = 1
          /\ Fetch(c, 1).done /\ Fetch(c, 1).err = ErrTransport
    /\ \E c \in Made :
          /\ Len(calls[c].fetches) = 2 /\ Fetch(c, 1).body >= 1
          /\ Fetch(c, 2).done /\ Fetch(c, 2).err = ErrTransport

\* C4: within one search, every page fetch but the last has completed: page
\* i+1 is not requested before page i is done, so at most one is in flight.
C4_OnePageInFlight ==
    \A c \in Made :
        /\ \A p \in Pages(c) : p < Len(calls[c].fetches) => Fetch(c, p).done
        /\ Cardinality({p \in Pages(c) : ~Fetch(c, p).done}) <= 1

\* C4 witness: the second page of a search is in flight, the first one done
C4_Witness ==
    \E c \in Made :
        Len(calls[c].fetches) = 2 /\ Fetch(c, 1).done /\ ~Fetch(c, 2).done /\ Fetch(c, 2).found = "miss"

\* C5: at most one transport request per URL is in flight, and a caller that
\* arrives while it is in flight waits for it and gets its result: the body
\* when it succeeds, the error when it fails.
C5_InFlightShared ==
    /\ \A i, j \in DOMAIN requests :
          (i # j /\ RequestUrl(requests[i]) = RequestUrl(requests[j])) =>
              ~(requests[i].status = "inflight" /\ requests[j].status = "inflight")
    /\ \A c \in Made : \A p \in Pages(c) :
          Fetch(c, p).found \in {"miss", "pending"} =>
              LET r == requests[Fetch(c, p).req]
              IN  /\ RequestUrl(r) = Fetch(c, p).key
                  /\ Fetch(c, p).done <=> r.status # "inflight"
                  /\ r.status = "ok" => (Fetch(c, p).err = NoError /\ Fetch(c, p).body = Fetch(c, p).req)
                  /\ r.status = "failed" => Fetch(c, p).err = ErrTransport

\* C5 witness: two calls shared one request, the second joining while it was in
\* flight, and both have its result
C5_Witness ==
    \E c, d \in Made : \E p \in Pages(c), q \in Pages(d) :
        /\ c # d /\ Fetch(c, p).found = "miss" /\ Fetch(d, q).found = "pending"
        /\ Fetch(c, p).req = Fetch(d, q).req /\ Fetch(c, p).done /\ Fetch(d, q).done

\* C6: the logger never affects control flow: no callback receives an error
\* raised by a logging call, and a search for a non-empty text that asks for a
\* page reaches the cache lookup whatever the logger.
C6_LoggerNeverAffectsControlFlow ==
    \A c \in Made :
        /\ \A i \in 1..Len(calls[c].cbs) : calls[c].cbs[i].err # ErrTypeError
        /\ (calls[c].api = "search" /\ calls[c].input.query = Str(<<"a">>) /\ calls[c].sets >= 1) =>
              Fetch(c, 1).found # "none"

\* the prefixes C7 lists for the recognized fields
ClaimedPrefix ==
    [title |-> <<"i", "n", "t", "i", "t", "l", "e", ":">>,
     author |-> <<"i", "n", "a", "u", "t", "h", "o", "r", ":">>,
     publisher |-> <<"i", "n", "p", "u", "b", "l", "i", "s", "h", "e", "r", ":">>,
     subject |-> <<"s", "u", "b", "j", "e", "c", "t", ":">>,
     isbn |-> <<"i", "s", "b", "n", ":">>,
     lccn |-> <<"l", "c", "c", "n", ":">>,
     oclc |-> <<"o", "c", "l", "c", ":">>,
     id |-> <<"i", "d", ":">>]

Recognized(field) == field.t = "str" /\ Len(field.s) = 1 /\ field.s[1] \in DOMAIN ClaimedPrefix

\* C7: searchBy with a non-empty value and a recognized field hands search the
\* query text <prefix>"<value>" and nothing else, with the configured page-set
\* count.
C7_SearchByDelegates ==
    \A c \in Made :
        (calls[c].api = "searchBy" /\ ~EmptyText(calls[c].input.query)
                                   /\ Recognized(calls[c].input.field)) =>
            /\ calls[c].options =
                  [NoOptions EXCEPT !.query =
                      Str(ClaimedPrefix[calls[c].input.field.s[1]] \o <<Quote>>
                          \o calls[c].input.query.s \o <<Quote>>)]
            /\ calls[c].sets = settings.setsToFetch

\* C8: searchBy with a non-empty value and a field that is given but is not
\* one of the eight recognized keys fails with the unsupported-field error and
\* fetches nothing.
C8_UnsupportedFieldRejected ==
    \A c \in Made :
        (calls[c].api = "searchBy" /\ ~EmptyText(calls[c].input.query)
                                   /\ calls[c].input.field.t = "str"
                                   /\ ~Recognized(calls[c].input.field)) =>
            /\ calls[c].cbs = <<Failure(ErrUnsupportedField)>>
            /\ calls[c].fetches = <<>>

\* s without its quote characters
RECURSIVE Unquoted(_)
Unquoted(s) ==
    IF s = <<>> THEN <<>>
    ELSE (IF Head(s) = Quote THEN <<>> ELSE <<Head(s)>>) \o Unquoted(Tail(s))

\* C9: a request for a query text id:X goes to <apiUrl>/X, X without its quote
\* characters.
C9_IdRequestTargetsId ==
    \A k \in DOMAIN requests :
        LET q == GetKey(requests[k].qs, "q").s
        IN  StartsWith(q, <<"i", "d", ":">>) =>
                requests[k].uri = settings.apiUrl \o <<"/">> \o Unquoted(SubSeq(q, 4, Len(q)))

\* the number of pages a search is to fetch: its sets, or the configured count
\* when it has none, as an integer
PagesAsked(c) ==
    LET sets == calls[c].input.sets
    IN  IF sets.t = "num" /\ sets.n # 0 THEN sets.n
        ELSE IF sets.t = "str" /\ sets.s # <<>> THEN 0
        ELSE settings.setsToFetch

CoercedSets(c) ==
    LET sets == calls[c].input.sets
    IN  IF sets = Undefined THEN settings.setsToFetch
        ELSE IF sets.t = "num" THEN sets.n
        ELSE 0

\* what a search that is to fetch n pages does: it fetches no more than n pages
\* and at least one when n >= 1, a success carries n bodies, and with n = 0 it
\* looks nothing up and calls back once with the empty list
FetchesPages(c, n) ==
    /\ Len(calls[c].fetches) <= n
    /\ n >= 1 => Len(calls[c].fetches) >= 1
    /\ \A i \in DOMAIN calls[c].cbs :
          calls[c].cbs[i].hasResults => Len(calls[c].cbs[i].results) = n
    /\ n = 0 => /\ calls[c].cbs = <<[err |-> NoError, hasResults |-> TRUE, results |-> <<>>]>>
                /\ calls[c].fetches = <<>>

\* C11 (as stated): a search fetches as many pages as the integer coercion of
\* the page-set count it was asked for: the configured count when the caller
\* names none, and none at all (success, empty list, nothing looked up) when
\* the count is no number.
C11_PagesAreCoercedSets ==
    \A c \in Made : calls[c].api = "search" => FetchesPages(c, CoercedSets(c))

\* C11 (amended): the same, except that a count of 0 is taken as no count: the
\* search then fetches the configured number of pages.
C11_PagesAreCoercedSetsOrDefault ==
    \A c \in Made : calls[c].api = "search" => FetchesPages(c, PagesAsked(c))

\* C11 witness: on a client configured for two or more pages, a search whose
\* page-set count is no number called back with the empty list and no request
\* was made; the client has a logger, so a page fetch would have gone out
C11_Witness ==
    \E c \in Made :
        /\ calls[c].api = "search" /\ calls[c].input.sets = Str(<<"x">>)
        /\ calls[c].input.query = Str(<<"a">>)
        /\ settings.logger = LoggerWithLog /\ settings.setsToFetch >= 2
        /\ calls[c].cbs = <<[err |-> NoError, hasResults |-> TRUE, results |-> <<>>]>>
        /\ requests = <<>>

\* C12: no call writes to the settings of a client: the default query
\* parameters, the cache parameters, the page-set count, the API URL and the
\* logger are after every step what they were before it.
C12_SettingsNeverWritten == [][settings' = settings]_vars

\* C17: whatever the interleaving of searches with different queries on one
\* client, the request a page fetch issued or joined carries that fetch's query
\* text and start index and has that fetch's URL, and the body a page fetch
\* delivers is the response to a request with that URL, although every fetch
\* writes its query and start index into the one settings.queryParams.
C17_RequestCarriesOwnQuery ==
    \A c \in Made : calls[c].api \in {"search", "searchBy"} =>
        \A p \in Pages(c) :
            LET f == Fetch(c, p)
            IN  /\ f.found # "none" =>
                      /\ f.req \in DOMAIN requests
                      /\ GetKey(requests[f.req].qs, "q") = f.query
                      /\ GetKey(requests[f.req].qs, "startIndex") = f.startIndex
                      /\ RequestUrl(requests[f.req]) = f.key
                /\ (f.done /\ f.err = NoError) =>
                      /\ f.body \in DOMAIN requests
                      /\ GetKey(requests[f.body].qs, "q") = f.query
                      /\ GetKey(requests[f.body].qs, "startIndex") = f.startIndex
                      /\ RequestUrl(requests[f.body]) = f.key

\* C17 witness: a search for two pages succeeded although a search with another
\* query text issued its request between the requests of the two pages, and the
\* shared query parameters now hold another query text than the first page's
C17_Witness ==
    \E c \in Made : \E d \in Made \ {c} :
        /\ Len(calls[c].fetches) >= 2 /\ Len(calls[d].fetches) >= 1
        /\ Fetch(c, 1).query # Fetch(d, 1).query
        /\ Fetch(c, 1).found = "miss" /\ Fetch(d, 1).found = "miss" /\ Fetch(c, 2).found = "miss"
        /\ Fetch(c, 1).req < Fetch(d, 1).req /\ Fetch(d, 1).req < Fetch(c, 2).req
        /\ calls[c].cbs = <<[err |-> NoError, hasResults |-> TRUE,
                             results |-> <<Fetch(c, 1).req, Fetch(c, 2).req>>]>>
        /\ calls[d].cbs = <<[err |-> NoError, hasResults |-> TRUE, results |-> <<Fetch(d, 1).req>>]>>

\* C15: with a time to live, a resolved entry that has lived for the time to
\* live is gone from the cache, so once the entry of a GET has expired only a
\* new GET to that URL can serve a call, and no call is still waiting for the
\* expired body; with the default time to live of 0 no entry ever expires: the
\* body of every successful GET stays in the cache and its URL is never
\* requested again.
C15_ExpiredEntryIsAbsent ==
    LET maxAge == settings.cacheOptions.maxAge
        e == searchCache.entries
    IN  /\ \A key \in DOMAIN e :
              (maxAge > 0 /\ e[key].state = "resolved") => e[key].ttl \in 1..maxAge
        /\ \A k \in DOMAIN requests :
              /\ requests[k].expired =>
                    /\ maxAge > 0 /\ requests[k].status = "ok"
                    /\ ~(HasEntry(searchCache, requests[k].key) /\ e[requests[k].key].req = k)
                    /\ (\A j \in DOMAIN requests : j > k => requests[j].key # requests[k].key)
                          => ~HasEntry(searchCache, requests[k].key)
              /\ (maxAge = 0 /\ requests[k].status = "ok") =>
                    /\ HasEntry(searchCache, requests[k].key)
                    /\ e[requests[k].key].state = "resolved" /\ e[requests[k].key].body = k
                    /\ \A j \in DOMAIN requests : j > k => requests[j].key # requests[k].key
        /\ \A c \in Made : \A p \in Pages(c) :
              (Fetch(c, p).found = "resolved" /\ ~Fetch(c, p).done) =>
                  ~requests[Fetch(c, p).req].expired

\* C15 witness: the entry of a successful GET expired, and the next call for
\* its URL missed the cache and issued a new GET
C15_Witness ==
    \E i, j \in DOMAIN requests :
        /\ i < j /\ requests[i].key = requests[j].key
        /\ requests[i].status = "ok" /\ requests[i].expired
        /\ \E c \in Made : \E p \in Pages(c) :
              Fetch(c, p).found = "miss" /\ Fetch(c, p).req = j

\* a start index that is no number value, or a negative number
InvalidStartIndex(v) == v.t \notin {"num", "nan"} \/ (v.t = "num" /\ v.n < 0)

\* C14: a page fetch whose start index is no number or is negative uses start
\* index 0: the request it issues or joins carries its query text and start
\* index 0 and has the fetch's cache key as its URL, and that key is the key
\* of a fetch of the same query text at start index 0.
C14_InvalidStartIndexIsZero ==
    \A c \in Made :
        (calls[c].api = "searchSingle" /\ InvalidStartIndex(calls[c].input.startIndex)) =>
            \A p \in Pages(c) :
                LET f == Fetch(c, p)
                IN  f.found # "none" =>
                       /\ GetKey(requests[f.req].qs, "q") = calls[c].input.query
                       /\ GetKey(requests[f.req].qs, "startIndex") = Num(0)
                       /\ RequestUrl(requests[f.req]) = f.key
                       /\ \A d \in Made : \A q \in Pages(d) :
                              (/\ calls[d].input.query = calls[c].input.query
                               /\ calls[d].input.startIndex = Num(0)
                               /\ Fetch(d, q).found # "none") => Fetch(d, q).key = f.key

\* C14 witness: a page fetch with a start index that is no number issued a
\* request, and a fetch of the same query text at start index 0 found that
\* request's cache entry
C14_Witness ==
    \E c \in Made : \E d \in Made \ {c} :
        /\ calls[c].api = "searchSingle" /\ calls[d].api = "searchSingle"
        /\ calls[c].input.startIndex = Str(<<"x">>) /\ calls[d].input.startIndex = Num(0)
        /\ Len(calls[c].fetches) = 1 /\ Len(calls[d].fetches) = 1
        /\ Fetch(c, 1).found = "miss"
        /\ Fetch(d, 1).found \in {"pending", "resolved"} /\ Fetch(d, 1).req = Fetch(c, 1).req

\* C16: the callback of a search or searchBy call is never invoked a second
\* time, each invocation carries an error or a result list and not both, and a
\* call that fails its validation or is to fetch no page has had its callback
\* invoked once when it returns, also when the callback throws.
C16_CallbackExactlyOnce ==
    \A c \in Made :
        /\ Len(calls[c].cbs) <= 1
        /\ \A i \in DOMAIN calls[c].cbs :
              (calls[c].cbs[i].err # NoError) # calls[c].cbs[i].hasResults
        /\ (calls[c].fetches = <<>> \/ calls[c].status = "done") => Len(calls[c].cbs) = 1

\* C13: the cache belongs to one client: every entry of a client's cache, every
\* request a page fetch of the client found in the cache and every body
\* delivered to it is a request that client issued itself, to the fetch's URL,
\* so of two clients that look up the same URL each has issued a request to
\* it; and the query parameters of a client's settings hold no query text but
\* one of its own fetches.
C13_CachePerClient ==
    \A i \in Clients :
        LET M == ClientMachine(i)
            Own(k, url) == k \in DOMAIN M.requests /\ RequestUrl(M.requests[k]) = url
        IN  /\ \A key \in DOMAIN M.searchCache.entries : Own(M.searchCache.entries[key].req, key)
            /\ \A c \in CallIds : \A p \in DOMAIN M.calls[c].fetches :
                  LET f == M.calls[c].fetches[p]
                  IN  /\ f.found # "none" => Own(f.req, f.key)
                      /\ (f.done /\ f.err = NoError) => Own(f.body, f.key)
                      /\ f.found # "none" =>
                            \A j \in Clients : \A d \in CallIds :
                                \A q \in DOMAIN ClientMachine(j).calls[d].fetches :
                                    (/\ ClientMachine(j).calls[d].fetches[q].found # "none"
                                     /\ ClientMachine(j).calls[d].fetches[q].key = f.key) =>
                                        \E k \in DOMAIN ClientMachine(j).requests :
                                            RequestUrl(ClientMachine(j).requests[k]) = f.key
            /\ GetKey(M.settings.queryParams, "q") # Undefined =>
                  \E c \in CallIds : \E p \in DOMAIN M.calls[c].fetches :
                      M.calls[c].fetches[p].query = GetKey(M.settings.queryParams, "q")

\* C13 witness: the first client has the body of a URL in its cache, and the
\* second client, looking up the same URL, missed its own cache, issued its own
\* request and delivered that request's body
C13_Witness ==
    \E c \in CallIds : \E d \in CallIds :
        /\ Len(calls[c].fetches) = 1 /\ Len(peer.calls[d].fetches) = 1
        /\ Fetch(c, 1).found = "miss" /\ Fetch(c, 1).done /\ Fetch(c, 1).err = NoError
        /\ HasEntry(searchCache, Fetch(c, 1).key)
        /\ peer.calls[d].fetches[1].key = Fetch(c, 1).key
        /\ peer.calls[d].fetches[1].found = "miss"
        /\ peer.calls[d].fetches[1].done /\ peer.calls[d].fetches[1].err = NoError
        /\ peer.requests[peer.calls[d].fetches[1].body].status = "ok"
        /\ Len(requests) = 1 /\ Len(peer.requests) = 1

====
